---- MODULE Spec2Model ----
(***************************************************************************)
(* Model of src/agent.py: the module-level start-up (toolset and           *)
(* connection construction) and the Jira tool adapters whose control flow  *)
(* carries logic: search_jira, get_sprint_id_by_name, check_sprint_health  *)
(* and add_issue_to_sprint_by_name.                                        *)
(*                                                                         *)
(* The remote systems are opaque: every call on jira_conn either raises or *)
(* returns data drawn from a bounded set.  Python strings that the code    *)
(* compares are sequences of one-character strings; strings the code only  *)
(* builds are records naming the f-string that produced them.              *)
(***************************************************************************)
EXTENDS Integers, Sequences, FiniteSets, TLC

\* ------------------------------------------------------------------ bounds
MaxSprints == 2     \* sprints a board listing holds at most
MaxIssues == 3      \* issues a search returns at most

\* ------------------------------------------------------------- str.lower()
UpperCase ==
  << "A", "B", "C", "D", "E", "F", "G", "H", "I", "J", "K", "L", "M",
     "N", "O", "P", "Q", "R", "S", "T", "U", "V", "W", "X", "Y", "Z" >>

LowerCase ==
  << "a", "b", "c", "d", "e", "f", "g", "h", "i", "j", "k", "l", "m",
     "n", "o", "p", "q", "r", "s", "t", "u", "v", "w", "x", "y", "z" >>

\* one character of str.lower(): an upper-case letter becomes its lower-case
\* letter, every other character is kept
LowerChar(c) ==
  IF \E i \in 1..Len(UpperCase) : UpperCase[i] = c
    THEN LowerCase[CHOOSE i \in 1..Len(UpperCase) : UpperCase[i] = c]
    ELSE c

\* str.lower() of a whole string
Lower(s) == [i \in 1..Len(s) |-> LowerChar(s[i])]

\* ------------------------------------------------------------ return values
\* a Python value an adapter returns: its type, which expression built it,
\* and the numbers it carries
StrVal(kind, nums) == [type |-> "str", kind |-> kind, nums |-> nums]

IntVal(n) == [type |-> "int", kind |-> "id", nums |-> <<n>>]

NoneVal == [type |-> "NoneType", kind |-> "None", nums |-> <<>>]

\* Python truthiness of such a value: None and 0 are falsy; every string an
\* adapter builds has a non-empty literal part and is truthy
Truthy(v) ==
  CASE v.type = "NoneType" -> FALSE
    [] v.type = "int" -> v.nums[1] # 0
    [] OTHER -> TRUE


\* ------------------------------------------------------ data the remote holds
\* sprint names a board may hold and a caller may ask for: two that differ
\* only by letter case, one that contains another, one contained in another,
\* and an unrelated one
SprintNames ==
  { <<"S", "p", "1">>, <<"s", "P", "1">>,
    <<"S", "p", "1", "0">>,
    <<"S", "p">>, <<"Q", "1">> }

\* status names an issue may carry
StatusNames ==
  { <<"D", "o", "n", "e">>, <<"D", "O", "N", "E">>, <<"c", "l", "o", "s", "e", "d">>,
    <<"R", "e", "s", "o", "l", "v", "e", "d">>,
    <<"I", "n", " ", "P", "r", "o", "g", "r", "e", "s", "s">>,
    <<"R", "E", "V", "I", "E", "W">>,
    <<"T", "o", " ", "D", "o">>,
    <<"I", "n", " ", "R", "e", "v", "i", "e", "w">> }

\* what jira_conn.sprints(board_id) may return: up to MaxSprints sprints with
\* distinct positive ids, in the board's order
SprintListings ==
  { l \in UNION { [1..n -> [id : 1..MaxSprints, name : SprintNames]] : n \in 0..MaxSprints } :
      \A i, j \in 1..Len(l) : i # j => l[i].id # l[j].id }

\* what jira_conn.search_issues(jql) may return: the status names of up to
\* MaxIssues issues
IssueLists == UNION { [1..n -> StatusNames] : n \in 0..MaxIssues }

\* project keys an issue may belong to and a caller may ask for
ProjectKeys == { "DEMO", "OPS" }

\* an issue the remote holds, as far as the backlog query looks at it: its
\* project, the sprint it is in (0 for none) and whether it has a resolution
StoredIssues == [project : ProjectKeys, sprint : 0..1, resolved : BOOLEAN]

\* what the remote may hold when a backlog query arrives: up to MaxIssues
\* issues, fewer than the page of 50 that search_issues returns at most
IssueStores == UNION { [1..n -> StoredIssues] : n \in 0..MaxIssues }

\* credentials and endpoints read by os.getenv
CredStates == { "valid", "invalid", "missing" }

\* the registered adapters modelled here
Tools ==
  { "search_jira", "get_sprint_id_by_name", "check_sprint_health",
    "add_issue_to_sprint_by_name", "get_backlog_tickets" }

VARIABLES
  env,        \* state of the credentials of each system
  phase,      \* position of the module-level code
  pc,         \* position of the running adapter: idle, run or resume
  stack,      \* adapters being executed, the innermost last
  req,        \* sprint_name or project_key argument of the invocation, <<>>
              \* when it has neither
  sprint_id,  \* local of check_sprint_health
  sprints,    \* board listing the adapter invoked by the agent received
  issues,     \* last search result an adapter received
  store,      \* issues the remote held when the backlog query arrived
  calls,      \* remote calls of the current invocation, in order
  divisor,    \* total of the division evaluated in this invocation, -1 if none
  ret,        \* value the invoked adapter returned to the Domain Agent
  last        \* adapter that returned it, "" until it returns

vars ==
  << env, phase, pc, stack, req, sprint_id, sprints, issues, store, calls,
     divisor, ret, last >>

Init ==
  /\ env \in [jira : CredStates, confluence : CredStates, github : CredStates]
  /\ phase = "github_tools"
  /\ pc = "idle"
  /\ stack = <<>>
  /\ req = <<>>
  /\ sprint_id = NoneVal
  /\ sprints = <<>>
  /\ issues = <<>>
  /\ store = <<>>
  /\ calls = <<>>
  /\ divisor = -1
  /\ ret = NoneVal
  /\ last = ""

\* ------------------------------------------------------------------ start-up
\* outcomes of a remote call through a client whose credential is in state c:
\* any call may raise, and with a bad credential every call does
CallOutcomes(c) == IF c = "valid" THEN { "ok", "raise" } ELSE { "raise" }

\* outcomes of constructing a client: the constructor is called at module
\* level, outside any try block, and may raise on a bad credential
ConnectOutcomes(c) == IF c = "valid" THEN { "ok" } ELSE { "ok", "raise" }

\* McpToolset(...): builds the header from the token, no call is made
github_tools ==
  /\ phase = "github_tools"
  /\ phase' = "jira_conn"
  /\ UNCHANGED << env, pc, stack, req, sprint_id, sprints, issues, store,
                  calls, divisor, ret, last >>

\* jira_conn = JIRA(server=..., basic_auth=...)
jira_conn ==
  /\ phase = "jira_conn"
  /\ \E o \in ConnectOutcomes(env.jira) :
       phase' = IF o = "ok" THEN "confluence_conn" ELSE "crashed"
  /\ UNCHANGED << env, pc, stack, req, sprint_id, sprints, issues, store,
                  calls, divisor, ret, last >>

\* confluence_conn = Confluence(url=..., ...)
confluence_conn ==
  /\ phase = "confluence_conn"
  /\ \E o \in ConnectOutcomes(env.confluence) :
       phase' = IF o = "ok" THEN "ready" ELSE "crashed"
  /\ UNCHANGED << env, pc, stack, req, sprint_id, sprints, issues, store,
                  calls, divisor, ret, last >>


\* --------------------------------------------------------- adapter plumbing
Top(st) == st[Len(st)]

\* a Domain Agent invokes a registered adapter; of its arguments only the
\* sprint_name or the project_key bears on the control flow
AgentInvoke(tool, name) ==
  /\ phase = "ready"
  /\ pc = "idle"
  /\ stack = <<>>
  /\ stack' = << tool >>
  /\ pc' = "run"
  /\ req' = name
  /\ sprint_id' = NoneVal
  /\ sprints' = <<>>
  /\ issues' = <<>>
  /\ store' = <<>>
  /\ calls' = <<>>
  /\ divisor' = -1
  /\ ret' = NoneVal
  /\ last' = ""
  /\ UNCHANGED << env, phase >>

\* the innermost adapter returns v: to the Domain Agent when it was invoked by
\* one, into the local sprint_id of check_sprint_health (line 270) otherwise
Return(v) ==
  IF Len(stack) = 1
    THEN /\ ret' = v
         /\ last' = Top(stack)
         /\ stack' = <<>>
         /\ pc' = "idle"
         /\ UNCHANGED sprint_id
    ELSE /\ sprint_id' = v
         /\ stack' = SubSeq(stack, 1, Len(stack) - 1)
         /\ pc' = "resume"
         /\ UNCHANGED << ret, last >>

\* one remote call: the client method, the sprint id it names (0 when it
\* names none) and whether it raised
Call(api, arg, outcome) == [api |-> api, arg |-> arg, outcome |-> outcome]

\* ------------------------------------------------------------- search_jira
search_jira ==
  /\ pc = "run"
  /\ Top(stack) = "search_jira"
  /\ \E o \in CallOutcomes(env.jira), found \in IssueLists :
       /\ calls' = Append(calls, Call("search_issues", 0, o))
       /\ IF o = "raise"
            THEN /\ Return(StrVal("Error: {e}", <<>>))
                 /\ UNCHANGED issues
            ELSE /\ issues' = found
                 /\ Return(IF found # <<>>
                             THEN StrVal("{key}: {summary} ({status})", << Len(found) >>)
                             ELSE StrVal("No tickets found.", <<>>))
  /\ UNCHANGED << env, phase, req, sprints, store, divisor >>

\* --------------------------------------------------- get_sprint_id_by_name
\* the comparison without the two lower() calls
NameMatches_CaseSensitive(sprintName, wanted) == sprintName = wanted

\* s.name.lower() == sprint_name.lower()
NameMatches(sprintName, wanted) == Lower(sprintName) = Lower(wanted)

\* positions of the listing whose sprint matches the wanted name
Matching(listing, wanted) ==
  { i \in 1..Len(listing) : NameMatches(listing[i].name, wanted) }

\* position of the first match; 0 when there is none
FirstMatch(listing, wanted) ==
  IF Matching(listing, wanted) = {}
    THEN 0
    ELSE CHOOSE i \in Matching(listing, wanted) :
           \A j \in Matching(listing, wanted) : i <= j

\* the for loop of lines 257-260: the id of the first match, else None
SprintIdOf(listing, wanted) ==
  IF FirstMatch(listing, wanted) = 0
    THEN NoneVal
    ELSE IntVal(listing[FirstMatch(listing, wanted)].id)

get_sprint_id_by_name ==
  /\ pc = "run"
  /\ Top(stack) = "get_sprint_id_by_name"
  /\ \E o \in CallOutcomes(env.jira), listing \in SprintListings :
       /\ calls' = Append(calls, Call("sprints", 0, o))
       /\ IF o = "raise"
            THEN /\ Return(StrVal("Error finding sprint: {e}", <<>>))
                 /\ UNCHANGED sprints
            ELSE /\ sprints' = IF Len(stack) = 1 THEN listing ELSE <<>>
                 /\ Return(SprintIdOf(listing, req))
  /\ UNCHANGED << env, phase, req, issues, store, divisor >>


\* ----------------------------------------------------- check_sprint_health
\* ['done', 'closed', 'resolved']
DoneNames == { <<"d", "o", "n", "e">>, <<"c", "l", "o", "s", "e", "d">>,
               <<"r", "e", "s", "o", "l", "v", "e", "d">> }

\* ['in progress', 'review']
InProgressNames == { <<"i", "n", " ", "p", "r", "o", "g", "r", "e", "s", "s">>,
                     <<"r", "e", "v", "i", "e", "w">> }

\* the count without the lower() call
CountIn_CaseSensitive(found, names) ==
  Cardinality({ i \in 1..Len(found) : found[i] \in names })

\* len([i for i in issues if i.fields.status.name.lower() in names])
CountIn(found, names) ==
  Cardinality({ i \in 1..Len(found) : Lower(found[i]) \in names })

\* n / d rounded to the nearest integer, a tie going to the even one: what
\* the format {completion_rate:.1f} does to the tenths of the percentage
RoundHalfEven(n, d) ==
  LET q == n \div d
      r == n % d
  IN  IF 2 * r < d THEN q
      ELSE IF 2 * r > d THEN q + 1
      ELSE IF q % 2 = 0 THEN q ELSE q + 1

\* lines 278-294: the report, its numbers being the tenths of the completion
\* percentage, done, in_progress, to_do and total; a division by zero raises
\* and is caught at line 295
HealthReport(found) ==
  LET total == Len(found)
      done == CountIn(found, DoneNames)
      in_progress == CountIn(found, InProgressNames)
      to_do == total - (done + in_progress)
  IN  IF total = 0
        THEN StrVal("Error calculating health: {e}", <<>>)
        ELSE StrVal("Health Report",
                    << RoundHalfEven(done * 1000, total), done, in_progress,
                       to_do, total >>)

\* the test written `issues is None`, which no search result satisfies
NoIssues_IsNone(found) == FALSE

\* `not issues`, line 275
NoIssues(found) == found = <<>>

\* line 270: check_sprint_health calls get_sprint_id_by_name
check_sprint_health_lookup ==
  /\ pc = "run"
  /\ Top(stack) = "check_sprint_health"
  /\ stack' = Append(stack, "get_sprint_id_by_name")
  /\ UNCHANGED << env, phase, pc, req, sprint_id, sprints, issues, store, calls,
                  divisor, ret, last >>

\* the sprint id a JQL query `sprint = {sprint_id}` names: 0 when the value
\* formatted into it is not an integer
JqlSprint(v) == IF v.type = "int" THEN v.nums[1] ELSE 0

\* outcomes of the search of line 274: a query built from anything but an
\* integer id is malformed and the remote rejects it
SearchOutcomes(v) ==
  IF v.type = "int" THEN CallOutcomes(env.jira) ELSE { "raise" }

\* lines 271-296, once get_sprint_id_by_name has returned
check_sprint_health_report ==
  /\ pc = "resume"
  /\ Top(stack) = "check_sprint_health"
  /\ IF ~Truthy(sprint_id)
       THEN /\ Return(StrVal("Sprint '{sprint_name}' not found on board {board_id}.", <<>>))
            /\ UNCHANGED << issues, calls, divisor >>
       ELSE \E o \in SearchOutcomes(sprint_id), found \in IssueLists :
              /\ calls' = Append(calls, Call("search_issues", JqlSprint(sprint_id), o))
              /\ IF o = "raise"
                   THEN /\ Return(StrVal("Error calculating health: {e}", <<>>))
                        /\ UNCHANGED << issues, divisor >>
                   ELSE /\ issues' = found
                        /\ IF NoIssues(found)
                             THEN /\ Return(StrVal("Sprint '{sprint_name}' is empty.", <<>>))
                                  /\ UNCHANGED divisor
                             ELSE /\ Return(HealthReport(found))
                                  /\ divisor' = Len(found)
  /\ UNCHANGED << env, phase, req, sprints, store >>

\* --------------------------------------------- add_issue_to_sprint_by_name
\* the position of the last match instead of the first; 0 when there is none
TargetSprint_LastMatch(listing, wanted) ==
  IF Matching(listing, wanted) = {}
    THEN 0
    ELSE CHOOSE i \in Matching(listing, wanted) :
           \A j \in Matching(listing, wanted) : i >= j

\* line 222: next(...) over the matching sprints, None when there is none
TargetSprint(listing, wanted) == FirstMatch(listing, wanted)

add_issue_to_sprint_by_name ==
  /\ pc = "run"
  /\ Top(stack) = "add_issue_to_sprint_by_name"
  /\ \E o1 \in CallOutcomes(env.jira), listing \in SprintListings,
        o2 \in CallOutcomes(env.jira) :
       IF o1 = "raise"
         THEN /\ calls' = Append(calls, Call("sprints", 0, o1))
              /\ Return(StrVal("Error: {e}", <<>>))
              /\ UNCHANGED sprints
         ELSE /\ sprints' = listing
              /\ IF TargetSprint(listing, req) = 0
                   THEN /\ calls' = Append(calls, Call("sprints", 0, o1))
                        /\ Return(StrVal("Could not find a sprint named '{sprint_name}' on board {board_id}.", <<>>))
                   ELSE LET target_sprint == listing[TargetSprint(listing, req)]
                        IN  /\ calls' = calls \o
                                 << Call("sprints", 0, o1),
                                    Call("add_issues_to_sprint", target_sprint.id, o2) >>
                            /\ Return(IF o2 = "raise"
                                        THEN StrVal("Error: {e}", <<>>)
                                        ELSE StrVal("{issue_key} successfully added to '{sprint_name}' (ID: {id}).",
                                                    << target_sprint.id >>))
  /\ UNCHANGED << env, phase, req, issues, store, divisor >>

\* ----------------------------------------------------- get_backlog_tickets
\* the query without its resolution clause
BacklogJql_NoResolution(project_key) ==
  [project |-> project_key, sprint_is_empty |-> TRUE,
   resolution_is_empty |-> FALSE]

\* line 241: project = '{project_key}' AND sprint is EMPTY AND resolution is
\* EMPTY
BacklogJql(project_key) ==
  [project |-> project_key, sprint_is_empty |-> TRUE,
   resolution_is_empty |-> TRUE]

\* whether the query jql selects the stored issue i
JqlSelects(jql, i) ==
  /\ i.project = jql.project
  /\ jql.sprint_is_empty => i.sprint = 0
  /\ jql.resolution_is_empty => ~i.resolved

\* jira_conn.search_issues(jql_query) on a remote holding `held`
SearchIssues(jql, held) == SelectSeq(held, LAMBDA i : JqlSelects(jql, i))

get_backlog_tickets ==
  /\ pc = "run"
  /\ Top(stack) = "get_backlog_tickets"
  /\ \E o \in CallOutcomes(env.jira), held \in IssueStores :
       /\ calls' = Append(calls, Call("search_issues", 0, o))
       /\ store' = held
       /\ IF o = "raise"
            THEN /\ Return(StrVal("Error retrieving backlog: {e}", <<>>))
                 /\ UNCHANGED issues
            ELSE LET results == SearchIssues(BacklogJql(req), held)
                 IN  /\ issues' = results
                     /\ Return(IF results = <<>>
                                 THEN StrVal("No backlog tickets found for project {project_key}.", <<>>)
                                 ELSE StrVal("Backlog for {project_key}:\n{results}",
                                             << Len(results) >>))
  /\ UNCHANGED << env, phase, req, sprints, divisor >>

\* ------------------------------------------------------------ specification
\* the Jira Domain Agent picks a registered adapter and, for the adapters that
\* take one, a sprint name or a project key
jira_agent ==
  \/ AgentInvoke("search_jira", <<>>)
  \/ \E key \in ProjectKeys : AgentInvoke("get_backlog_tickets", key)
  \/ \E tool \in Tools \ { "search_jira", "get_backlog_tickets" },
        name \in SprintNames :
       AgentInvoke(tool, name)

Next ==
  \/ github_tools
  \/ jira_conn
  \/ confluence_conn
  \/ jira_agent
  \/ search_jira
  \/ get_sprint_id_by_name
  \/ check_sprint_health_lookup
  \/ check_sprint_health_report
  \/ add_issue_to_sprint_by_name
  \/ get_backlog_tickets

Spec == Init /\ [][Next]_vars


\* ------------------------------------------------------------------ claims
\* two characters that are the same letter in either case, or the same
\* character
SameCharIgnoringCase(a, b) ==
  \/ a = b
  \/ \E k \in 1..Len(UpperCase) :
       { a, b } = { UpperCase[k], LowerCase[k] }

\* two strings that differ at most by letter case
SameIgnoringCase(a, b) ==
  /\ Len(a) = Len(b)
  /\ \A i \in 1..Len(a) : SameCharIgnoringCase(a[i], b[i])

\* C1: every adapter registered with an agent returns a string to the Domain
\* Agent, whatever its remote calls did; never an integer id or None.
C1_AdapterReturnsString == last # "" => ret.type = "str"

\* C4: check_sprint_health on a sprint that is found and whose search
\* returns no issue answers "Sprint '<name>' is empty." without reaching the
\* division, and no execution divides by a total of 0.
C4_EmptySprintNoDivision ==
  /\ divisor # 0
  /\ ( /\ last = "check_sprint_health"
       /\ sprint_id.type = "int"
       /\ calls # <<>>
       /\ calls[Len(calls)] = Call("search_issues", sprint_id.nums[1], "ok")
       /\ issues = <<>> )
     => /\ ret = StrVal("Sprint '{sprint_name}' is empty.", <<>>)
        /\ divisor = -1

C4_Witness ==
  /\ last = "check_sprint_health"
  /\ sprint_id.type = "int"
  /\ Len(calls) = 2
  /\ calls[2].outcome = "ok"
  /\ issues = <<>>
  /\ ret.kind = "Sprint '{sprint_name}' is empty."

\* the keyword sets of the three buckets, as the specification lists them
C5_DoneKeywords == { <<"d", "o", "n", "e">>, <<"c", "l", "o", "s", "e", "d">>,
                     <<"r", "e", "s", "o", "l", "v", "e", "d">> }

C5_InProgressKeywords == { <<"i", "n", " ", "p", "r", "o", "g", "r", "e", "s", "s">>,
                           <<"r", "e", "v", "i", "e", "w">> }

\* issues of a search result whose status name is, ignoring case, a keyword
C5_Bucket(found, keywords) ==
  { i \in 1..Len(found) : \E k \in keywords : SameIgnoringCase(found[i], k) }

\* C5: a health report over N >= 1 issues gives three non-negative counts
\* that are the sizes of the done, in-progress and remaining buckets and sum
\* to N, and a percentage that is done / N * 100 to the nearest tenth.
C5_HealthReportCounts ==
  (last = "check_sprint_health" /\ ret.kind = "Health Report") =>
    LET n == Len(issues)
        pct == ret.nums[1]
        done == ret.nums[2]
        in_progress == ret.nums[3]
        to_do == ret.nums[4]
        total == ret.nums[5]
    IN  /\ n >= 1
        /\ total = n
        /\ done = Cardinality(C5_Bucket(issues, C5_DoneKeywords))
        /\ in_progress = Cardinality(C5_Bucket(issues, C5_InProgressKeywords))
        /\ to_do = Cardinality((1..n) \ (C5_Bucket(issues, C5_DoneKeywords)
                                          \cup C5_Bucket(issues, C5_InProgressKeywords)))
        /\ done >= 0 /\ in_progress >= 0 /\ to_do >= 0
        /\ done + in_progress + to_do = n
        /\ 2 * (pct * n - 1000 * done) <= n
        /\ 2 * (1000 * done - pct * n) <= n

\* a report over issues of all three buckets, one of them named in another
\* letter case than its keyword, and a percentage that needed rounding
C5_Witness ==
  /\ last = "check_sprint_health"
  /\ ret.kind = "Health Report"
  /\ ret.nums[2] >= 1 /\ ret.nums[3] >= 1 /\ ret.nums[4] >= 1
  /\ \E i \in 1..Len(issues) : issues[i] = <<"D", "O", "N", "E">>
  /\ ret.nums[1] * ret.nums[5] # 1000 * ret.nums[2]

C7_NoAdapterCallsAdapter == Len(stack) <= 1

\* C8: whatever the state of the credentials, the module-level code reaches
\* the point where requests are accepted; start-up never ends in a crash.
C8_StartupNeverCrashes == phase # "crashed"

\* C9: within one invocation no remote call follows a remote call that
\* failed, and an invocation in which one failed returns an error string.
C9_NoCallAfterFailure ==
  /\ \A i \in 1..(Len(calls) - 1) : calls[i].outcome = "ok"
  /\ (last # "" /\ \E i \in 1..Len(calls) : calls[i].outcome = "raise") =>
       ret.type = "str"


\* the backlog of a project among the issues the remote holds: the issues of
\* the project that are in no sprint and have no resolution, in the remote's
\* order
C11_Backlog(held, key) ==
  SelectSeq(held, LAMBDA i : i.project = key /\ i.sprint = 0 /\ ~i.resolved)

\* C11 as stated: get_backlog_tickets receives exactly the project's backlog
\* and, whatever the outcome of the search, returns either the itemized list
\* or the "No backlog tickets found" message.
C11_ListOrNoneForEveryOutcome ==
  last = "get_backlog_tickets" =>
    /\ calls = << Call("search_issues", 0, "ok") >> =>
         issues = C11_Backlog(store, req)
    /\ \/ ret.kind = "Backlog for {project_key}:\n{results}"
       \/ ret.kind = "No backlog tickets found for project {project_key}."

\* C11 as amended: when the search succeeds, get_backlog_tickets receives
\* exactly the project's backlog and returns the itemized list, one line per
\* issue, when there is an issue and the "No backlog tickets found" message
\* when there is none; when the search raises it returns the "Error
\* retrieving backlog" string.
C11_BacklogResult ==
  last = "get_backlog_tickets" =>
    IF calls = << Call("search_issues", 0, "ok") >>
      THEN /\ issues = C11_Backlog(store, req)
           /\ ret = IF issues # <<>>
                      THEN StrVal("Backlog for {project_key}:\n{results}",
                                  << Len(issues) >>)
                      ELSE StrVal("No backlog tickets found for project {project_key}.", <<>>)
      ELSE /\ calls = << Call("search_issues", 0, "raise") >>
           /\ ret = StrVal("Error retrieving backlog: {e}", <<>>)

\* a list of one line, the remote holding besides that issue a resolved one
\* and one in a sprint, both of the same project
C11_Witness ==
  /\ last = "get_backlog_tickets"
  /\ ret = StrVal("Backlog for {project_key}:\n{results}", << 1 >>)
  /\ \E i \in 1..Len(store) :
       store[i] = [project |-> req, sprint |-> 0, resolved |-> TRUE]
  /\ \E i \in 1..Len(store) :
       store[i] = [project |-> req, sprint |-> 1, resolved |-> FALSE]

\* the add-to-sprint calls of the invocation
C12_Adds == SelectSeq(calls, LAMBDA c : c.api = "add_issues_to_sprint")

\* listed sprints whose name equals the requested one ignoring letter case
C12_Matches ==
  { i \in 1..Len(sprints) : SameIgnoringCase(sprints[i].name, req) }

====
